---------------------------- MODULE Spec2Model ----------------------------
(* Ticket-hierarchy traversal of the two tracker integrations:             *)
(*   jira_ticket_hierarchy.py   (collect_ticket_information)               *)
(*   azure_generation_script.py (collect_work_item_descriptions_and_...)   *)
(* The recursion of the Python code is a stack of frames; one action is    *)
(* the straight-line code of a frame between two recursive calls.  The     *)
(* tracker is the environment: the answer to a request is drawn when the   *)
(* request is first issued and is the same ever after.                     *)
EXTENDS Integers, Sequences, FiniteSets, TLC

\* ---------------------------------------------------------------- bounds
NKeys == 3
NProjects == 2
MaxRelations == 3
MaxRuns == 2
\* depth cap of the frame stack (stands for the interpreter's recursion limit)
RecursionLimit == 7

Keys == 1..NKeys
\* Python's None: the default parent_ticket and the top-level hierarchy key
None == 0

VARIABLES
  variant,        \* "jira" or "azure": which script runs
  tracker,        \* endpoint <<project, key>> -> the response it gives
  nrel,           \* number of relation entries revealed by the tracker so far
  named,          \* keys 1..named have been named so far (root or relation id)
  status,         \* "idle", "running", "returned", "fault", "overflow"
  root,           \* key the running traversal was started with
  runs,           \* number of traversal invocations so far in this process
  stack,          \* call stack of the recursion, innermost frame last
  visited,        \* visited_tickets / visited_ids
  found_from,     \* key -> key of the frame that called the frame visiting it
  cache,          \* ticket_cache / fetched_work_items : key -> response
  hierarchy,      \* ticket_hierarchy / hierarchy : parent -> list of keys
  ticket_details, \* value returned by the outermost collect_ticket_information
  work_item_map,  \* keys of work_item_map in insertion order
  requests,       \* key -> network requests issued for it in this run
  writes,         \* key -> descriptions recorded for it in this run
  history,        \* results of the finished invocations, oldest first
  walk            \* print_hierarchy: its position, call stack and printed ids

vars == <<variant, tracker, nrel, named, status, root, runs, stack, visited,
          found_from, cache,
          hierarchy, ticket_details, work_item_map, requests, writes, history,
          walk>>

\* everything but the walk of print_hierarchy
traversal == <<variant, tracker, nrel, named, status, root, runs, stack, visited,
               found_from, cache, hierarchy, ticket_details, work_item_map,
               requests, writes, history>>

\* ------------------------------------------------------------- data model
Range(s) == {s[i] : i \in 1..Len(s)}

SeqsUpTo(S, n) == UNION {[1..m -> S] : m \in 0..n}

EmptyMap == <<>>

Put(m, k, v) == [x \in (DOMAIN m) \cup {k} |-> IF x = k THEN v ELSE m[x]]

Get(m, k, default) == IF k \in DOMAIN m THEN m[k] ELSE default

Ids(rels) == [j \in 1..Len(rels) |-> rels[j].id]

\* relation tags the two trackers use
RelTypes(v) ==
  IF v = "jira" THEN {"inwardIssue", "outwardIssue"}
  ELSE {"Hierarchy-Forward", "Hierarchy-Reverse"}

Relation(v) == [rel : RelTypes(v), id : Keys]

\* What an endpoint can answer.  "record" is the expected JSON record,
\* "errjson" a JSON error body without the record's fields, "nonjson" a body
\* that is not JSON.  get_ticket_data looks at the body only, the Azure
\* fetcher at the status code and, for 200, at the body: a non-success status
\* with a JSON error body and a success status with a body that is not JSON
\* take every failure path of both.
OkResponse(rels) == [code |-> 200, body |-> "record", relations |-> rels]
ErrJson == [code |-> 404, body |-> "errjson", relations |-> <<>>]
OkText == [code |-> 200, body |-> "nonjson", relations |-> <<>>]
Absent == [code |-> 0, body |-> "none", relations |-> <<>>]

Failures == {ErrJson, OkText}

MaxOf(S) == CHOOSE x \in S : \A y \in S : y <= x

\* Keys are opaque names, so the tracker names them in order: a relation names
\* a key named before or the next unnamed one.
InOrder(rels, n) ==
  \A j \in 1..Len(rels) :
    rels[j].id <= MaxOf({n} \cup {rels[m].id : m \in 1..(j - 1)}) + 1

Responses(v, left, n) ==
  Failures \cup
  {OkResponse(r) : r \in {q \in SeqsUpTo(Relation(v), left) : InOrder(q, n)}}

\* the answers endpoint e may give now: the one it gave before, or any
Answers(e) ==
  IF e \in DOMAIN tracker THEN {tracker[e]}
  ELSE Responses(variant, MaxRelations - nrel, named)

Reveal(e, resp) ==
  /\ tracker' = Put(tracker, e, resp)
  /\ nrel' = IF e \in DOMAIN tracker THEN nrel ELSE nrel + Len(resp.relations)
  /\ named' = MaxOf({named} \cup Range(Ids(resp.relations)))

Frame(key, parent) ==
  [key |-> key, parent |-> parent, pc |-> "call", related |-> <<>>,
   i |-> 1, project |-> 1, infos |-> <<>>]

Top == stack[Len(stack)]

SetTop(f) == [stack EXCEPT ![Len(stack)] = f]

ZeroCount == [k \in Keys |-> 0]

\* no frame has visited the key yet
Unreached == 0 - 1

NotFound == [k \in Keys |-> Unreached]

\* print_hierarchy has not been called
NoWalk == [pc |-> "idle", stack |-> <<>>, out |-> <<>>]

\* the caller of the innermost frame: None for the outermost call
Caller == IF Len(stack) = 1 THEN None ELSE stack[Len(stack) - 1].key


\* ------------------------------------------------------------ the Fetchers
\* get_ticket_data (Jira): any body that parses as JSON is cached and
\* returned, whatever the status code; only a JSON decode error gives None.
GetTicketData(ticket_key, ticket_cache, response) ==
  IF ticket_key \in DOMAIN ticket_cache
  THEN [data |-> ticket_cache[ticket_key], cache |-> ticket_cache, calls |-> 0]
  ELSE IF response.body = "nonjson"
  THEN [data |-> Absent, cache |-> ticket_cache, calls |-> 1]
  ELSE [data |-> response, cache |-> Put(ticket_cache, ticket_key, response),
        calls |-> 1]

\* get_json_of_workItem_using_azureDevops_restApis: status 200 is parsed
\* (response.json() raises on a body that is not JSON), cached and returned;
\* any other status gives None.
GetJsonOfWorkItem(work_item_id, fetched_work_items, response) ==
  IF work_item_id \in DOMAIN fetched_work_items
  THEN [data |-> fetched_work_items[work_item_id], cache |-> fetched_work_items,
        calls |-> 0, raised |-> FALSE]
  ELSE IF response.code = 200
  THEN IF response.body = "nonjson"
       THEN [data |-> Absent, cache |-> fetched_work_items, calls |-> 1,
             raised |-> TRUE]
       ELSE [data |-> response,
             cache |-> Put(fetched_work_items, work_item_id, response),
             calls |-> 1, raised |-> FALSE]
  ELSE [data |-> Absent, cache |-> fetched_work_items, calls |-> 1,
        raised |-> FALSE]

\* -------------------------------------------------- the Relation Resolvers
\* the outwardIssue branch lost: only inward links are collected
LinkedIssuesInwardOnly(issue_links, parent_ticket) ==
  LET Keep(link) == /\ link.rel = "inwardIssue"
                    /\ link.id # parent_ticket
  IN Ids(SelectSeq(issue_links, Keep))

\* Jira: keys of the inward/outward issue links, the caller's key left out
LinkedIssues(issue_links, parent_ticket) ==
  LET Keep(link) == /\ link.rel \in {"inwardIssue", "outwardIssue"}
                    /\ link.id # parent_ticket
  IN Ids(SelectSeq(issue_links, Keep))

\* Azure: ids of the Hierarchy-Forward relations not yet visited
RelatedWorkItemIds(relations, visited_ids) ==
  LET Keep(relation) == /\ relation.rel = "Hierarchy-Forward"
                        /\ relation.id \notin visited_ids
  IN Ids(SelectSeq(relations, Keep))

\* Azure: id of the last Hierarchy-Reverse relation, None without one
ParentWorkItem(relations) ==
  LET rev == {j \in 1..Len(relations) : relations[j].rel = "Hierarchy-Reverse"}
  IN IF rev = {} THEN None
     ELSE relations[CHOOSE j \in rev : \A m \in rev : m <= j].id

\* Azure: file work_item_id under its parent unless already listed there
AddToHierarchy(h, parent_work_item, work_item_id) ==
  LET listed == Get(h, parent_work_item, <<>>)
  IN IF work_item_id \in Range(listed) THEN h
     ELSE Put(h, parent_work_item, Append(listed, work_item_id))

\* Azure: work_item_map[work_item_id] = description (a dict keeps one entry)
StoreDescription(map, work_item_id) ==
  IF work_item_id \in Range(map) THEN map ELSE Append(map, work_item_id)

\* the guard is lost: no key counts as visited
NeverVisited(key, seen) == FALSE

\* the guard that opens both traversal functions
AlreadyVisited(key, seen) == key \in seen

\* ------------------------------------------------------------------- Init
Init ==
  /\ variant \in {"jira", "azure"}
  /\ tracker = EmptyMap
  /\ nrel = 0
  /\ named = 0
  /\ status = "idle"
  /\ root = None
  /\ runs = 0
  /\ stack = <<>>
  /\ visited = {}
  /\ cache = EmptyMap
  /\ hierarchy = EmptyMap
  /\ ticket_details = <<>>
  /\ work_item_map = <<>>
  /\ requests = ZeroCount
  /\ writes = ZeroCount
  /\ history = <<>>
  /\ found_from = NotFound
  /\ walk = NoWalk

\* A traversal is invoked with root key r.  The Jira script keeps cache,
\* visited set and hierarchy in module globals; the Azure function creates
\* its four containers when called without them.
Start(r) ==
  /\ r <= named + 1
  /\ root' = r
  /\ named' = MaxOf({named, r})
  /\ runs' = runs + 1
  /\ status' = "running"
  /\ stack' = <<Frame(r, None)>>
  /\ requests' = ZeroCount
  /\ writes' = ZeroCount
  /\ ticket_details' = <<>>
  /\ found_from' = NotFound
  /\ walk' = NoWalk
  /\ IF variant = "jira"
     THEN UNCHANGED <<visited, cache, hierarchy, work_item_map>>
     ELSE /\ visited' = {}
          /\ cache' = EmptyMap
          /\ hierarchy' = EmptyMap
          /\ work_item_map' = <<>>
  /\ UNCHANGED <<variant, tracker, nrel, history>>

\* main() calls the traversal once
Invoke(r) ==
  /\ status = "idle"
  /\ Start(r)

\* the traversal is called again in the same process after it returned
InvokeAgain(r) ==
  /\ status = "returned"
  /\ runs < MaxRuns
  /\ Start(r)

\* a frame returns: to its caller, or to the invoker when it is the outermost
ReturnJira(infos, h) ==
  IF Len(stack) = 1
  THEN /\ stack' = <<>>
       /\ status' = "returned"
       /\ ticket_details' = infos
       /\ history' = Append(history,
                       [root |-> root, details |-> infos, hierarchy |-> h])
  ELSE /\ stack' = [SubSeq(stack, 1, Len(stack) - 1)
                      EXCEPT ![Len(stack) - 1] =
                        [@ EXCEPT !.infos = @ \o infos, !.i = @ + 1]]
       /\ UNCHANGED <<status, ticket_details, history>>

ReturnAzure ==
  IF Len(stack) = 1
  THEN /\ stack' = <<>>
       /\ status' = "returned"
       /\ history' = Append(history,
                       [root |-> root, details |-> work_item_map,
                        hierarchy |-> hierarchy])
  ELSE /\ stack' = [SubSeq(stack, 1, Len(stack) - 1)
                      EXCEPT ![Len(stack) - 1] = [@ EXCEPT !.i = @ + 1]]
       /\ UNCHANGED <<status, history>>

\* a frame calls itself for a related key
Push(key, parent) ==
  IF Len(stack) < RecursionLimit
  THEN /\ stack' = Append(stack, Frame(key, parent))
       /\ status' = status
  ELSE /\ stack' = stack
       /\ status' = "overflow"

Running(v, pc) ==
  /\ status = "running"
  /\ variant = v
  /\ stack # <<>>
  /\ Top.pc = pc

\* ------------------------------------------- collect_ticket_information
\* line 164: the key was visited before
JiraSkipVisited ==
  /\ Running("jira", "call")
  /\ AlreadyVisited(Top.key, visited)
  /\ ReturnJira(<<>>, hierarchy)
  /\ UNCHANGED <<variant, tracker, nrel, named, root, runs, visited, found_from, cache, hierarchy,
                 work_item_map, requests, writes>>
  /\ UNCHANGED walk

\* lines 167-171: mark, fetch; the fetch gives None
JiraFetchAbsent ==
  /\ Running("jira", "call")
  /\ ~AlreadyVisited(Top.key, visited)
  /\ \E resp \in Answers(<<1, Top.key>>) :
       LET got == GetTicketData(Top.key, cache, resp) IN
       /\ got.data = Absent
       /\ visited' = visited \cup {Top.key}
       /\ found_from' = [found_from EXCEPT ![Top.key] = Caller]
       /\ cache' = got.cache
       /\ requests' = [requests EXCEPT ![Top.key] = @ + got.calls]
       /\ IF got.calls > 0 THEN Reveal(<<1, Top.key>>, resp)
          ELSE UNCHANGED <<tracker, nrel, named>>
       /\ ReturnJira(<<>>, hierarchy)
  /\ UNCHANGED <<variant, root, runs, hierarchy, work_item_map, writes>>
  /\ UNCHANGED walk

\* lines 167-176: mark, fetch; the JSON body has no 'fields': KeyError
JiraKeyError ==
  /\ Running("jira", "call")
  /\ ~AlreadyVisited(Top.key, visited)
  /\ \E resp \in Answers(<<1, Top.key>>) :
       LET got == GetTicketData(Top.key, cache, resp) IN
       /\ got.data # Absent
       /\ got.data.body # "record"
       /\ visited' = visited \cup {Top.key}
       /\ found_from' = [found_from EXCEPT ![Top.key] = Caller]
       /\ cache' = got.cache
       /\ requests' = [requests EXCEPT ![Top.key] = @ + got.calls]
       /\ IF got.calls > 0 THEN Reveal(<<1, Top.key>>, resp)
          ELSE UNCHANGED <<tracker, nrel, named>>
       /\ status' = "fault"
  /\ UNCHANGED <<variant, root, runs, stack, hierarchy, ticket_details,
                 work_item_map, writes, history>>
  /\ UNCHANGED walk

\* lines 167-202: mark, fetch, normalise, resolve the links, record them
JiraProcess ==
  /\ Running("jira", "call")
  /\ ~AlreadyVisited(Top.key, visited)
  /\ \E resp \in Answers(<<1, Top.key>>) :
       LET got == GetTicketData(Top.key, cache, resp)
           linked_issues == LinkedIssues(got.data.relations, Top.parent)
       IN
       /\ got.data # Absent
       /\ got.data.body = "record"
       /\ visited' = visited \cup {Top.key}
       /\ found_from' = [found_from EXCEPT ![Top.key] = Caller]
       /\ cache' = got.cache
       /\ requests' = [requests EXCEPT ![Top.key] = @ + got.calls]
       /\ IF got.calls > 0 THEN Reveal(<<1, Top.key>>, resp)
          ELSE UNCHANGED <<tracker, nrel, named>>
       /\ writes' = [writes EXCEPT ![Top.key] = @ + 1]
       /\ hierarchy' = IF linked_issues # <<>>
                       THEN Put(hierarchy, Top.key, linked_issues)
                       ELSE hierarchy
       /\ stack' = SetTop([Top EXCEPT !.pc = "loop", !.related = linked_issues,
                                      !.i = 1, !.infos = <<Top.key>>])
  /\ UNCHANGED <<variant, status, root, runs, ticket_details, work_item_map,
                 history>>
  /\ UNCHANGED walk

\* lines 206-207: the next linked key is collected with this key as parent
JiraRecurse ==
  /\ Running("jira", "loop")
  /\ Top.i <= Len(Top.related)
  /\ Push(Top.related[Top.i], Top.key)
  /\ UNCHANGED <<variant, tracker, nrel, named, root, runs, visited, found_from, cache, hierarchy,
                 ticket_details, work_item_map, requests, writes, history>>
  /\ UNCHANGED walk

\* line 209
JiraReturn ==
  /\ Running("jira", "loop")
  /\ Top.i > Len(Top.related)
  /\ ReturnJira(Top.infos, hierarchy)
  /\ UNCHANGED <<variant, tracker, nrel, named, root, runs, visited, found_from, cache, hierarchy,
                 work_item_map, requests, writes>>
  /\ UNCHANGED walk

\* ----------------------------- collect_work_item_descriptions_and_hierarchy
\* lines 82-83
AzureSkipVisited ==
  /\ Running("azure", "call")
  /\ AlreadyVisited(Top.key, visited)
  /\ ReturnAzure
  /\ UNCHANGED <<variant, tracker, nrel, named, root, runs, visited, found_from, cache, hierarchy,
                 ticket_details, work_item_map, requests, writes>>
  /\ UNCHANGED walk

\* line 86
AzureMark ==
  /\ Running("azure", "call")
  /\ ~AlreadyVisited(Top.key, visited)
  /\ visited' = visited \cup {Top.key}
  /\ found_from' = [found_from EXCEPT ![Top.key] = Caller]
  /\ stack' = SetTop([Top EXCEPT !.pc = "project", !.project = 1])
  /\ UNCHANGED <<variant, tracker, nrel, named, status, root, runs, cache, hierarchy,
                 ticket_details, work_item_map, requests, writes, history>>
  /\ UNCHANGED walk

\* lines 88-92: this project's endpoint gives nothing; on to the next project
AzureProjectAbsent ==
  /\ Running("azure", "project")
  /\ Top.project <= NProjects
  /\ \E resp \in Answers(<<Top.project, Top.key>>) :
       LET got == GetJsonOfWorkItem(Top.key, cache, resp) IN
       /\ ~got.raised
       /\ got.data = Absent
       /\ cache' = got.cache
       /\ requests' = [requests EXCEPT ![Top.key] = @ + got.calls]
       /\ IF got.calls > 0 THEN Reveal(<<Top.project, Top.key>>, resp)
          ELSE UNCHANGED <<tracker, nrel, named>>
       /\ stack' = SetTop([Top EXCEPT !.project = @ + 1])
  /\ UNCHANGED <<variant, status, root, runs, visited, found_from, hierarchy, ticket_details,
                 work_item_map, writes, history>>
  /\ UNCHANGED walk

\* lines 50-52: status 200 with a body that is not JSON: response.json() raises
AzureDecodeError ==
  /\ Running("azure", "project")
  /\ Top.project <= NProjects
  /\ \E resp \in Answers(<<Top.project, Top.key>>) :
       LET got == GetJsonOfWorkItem(Top.key, cache, resp) IN
       /\ got.raised
       /\ cache' = got.cache
       /\ requests' = [requests EXCEPT ![Top.key] = @ + got.calls]
       /\ IF got.calls > 0 THEN Reveal(<<Top.project, Top.key>>, resp)
          ELSE UNCHANGED <<tracker, nrel, named>>
       /\ status' = "fault"
  /\ UNCHANGED <<variant, root, runs, stack, visited, found_from, hierarchy, ticket_details,
                 work_item_map, writes, history>>
  /\ UNCHANGED walk

\* lines 88-135: the record is there (fetched or cached): describe the item,
\* resolve its relations and file it in the hierarchy
AzureProcess ==
  /\ Running("azure", "project")
  /\ Top.project <= NProjects
  /\ \E resp \in (IF Top.key \in DOMAIN cache THEN {cache[Top.key]}
                  ELSE Answers(<<Top.project, Top.key>>)) :
       LET got == GetJsonOfWorkItem(Top.key, cache, resp)
           relations == got.data.relations
           related_work_item_ids == RelatedWorkItemIds(relations, visited)
           parent_work_item == ParentWorkItem(relations)
       IN
       /\ ~got.raised
       /\ got.data # Absent
       /\ cache' = got.cache
       /\ requests' = [requests EXCEPT ![Top.key] = @ + got.calls]
       /\ IF got.calls > 0 THEN Reveal(<<Top.project, Top.key>>, resp)
          ELSE UNCHANGED <<tracker, nrel, named>>
       /\ work_item_map' = StoreDescription(work_item_map, Top.key)
       /\ writes' = [writes EXCEPT ![Top.key] = @ + 1]
       /\ hierarchy' = AddToHierarchy(hierarchy, parent_work_item, Top.key)
       /\ stack' = SetTop([Top EXCEPT !.pc = "loop",
                                      !.related = related_work_item_ids,
                                      !.i = 1])
  /\ UNCHANGED <<variant, status, root, runs, visited, found_from, ticket_details, history>>
  /\ UNCHANGED walk

\* lines 138-141
AzureRecurse ==
  /\ Running("azure", "loop")
  /\ Top.i <= Len(Top.related)
  /\ Push(Top.related[Top.i], None)
  /\ UNCHANGED <<variant, tracker, nrel, named, root, runs, visited, found_from, cache, hierarchy,
                 ticket_details, work_item_map, requests, writes, history>>
  /\ UNCHANGED walk

\* line 88: the children are done; the loop goes on to the next project
AzureNextProject ==
  /\ Running("azure", "loop")
  /\ Top.i > Len(Top.related)
  /\ stack' = SetTop([Top EXCEPT !.pc = "project", !.project = @ + 1])
  /\ UNCHANGED <<variant, tracker, nrel, named, status, root, runs, visited, found_from, cache,
                 hierarchy, ticket_details, work_item_map, requests, writes,
                 history>>
  /\ UNCHANGED walk

\* line 143
AzureReturn ==
  /\ Running("azure", "project")
  /\ Top.project > NProjects
  /\ ReturnAzure
  /\ UNCHANGED <<variant, tracker, nrel, named, root, runs, visited, found_from, cache, hierarchy,
                 ticket_details, work_item_map, requests, writes>>
  /\ UNCHANGED walk

\* --------------------------------------------------------- print_hierarchy
\* the children print_hierarchy iterates for work_item_id (None: top level)
ChildItems(h, work_item_id) == Get(h, work_item_id, <<>>)

WalkTop == walk.stack[Len(walk.stack)]

\* print_hierarchy(hierarchy, work_item_map) is called on a finished traversal
PrintStart ==
  /\ status = "returned"
  /\ variant = "azure"
  /\ walk.pc = "idle"
  /\ walk' = [pc |-> "walking", stack |-> <<[id |-> None, i |-> 1]>>,
              out |-> <<>>]
  /\ UNCHANGED traversal

\* lines 150-152, 155-157: print the next child and walk into it
PrintItem ==
  /\ status = "returned"
  /\ walk.pc = "walking"
  /\ WalkTop.i <= Len(ChildItems(hierarchy, WalkTop.id))
  /\ LET item == ChildItems(hierarchy, WalkTop.id)[WalkTop.i] IN
     IF Len(walk.stack) < RecursionLimit
     THEN walk' = [walk EXCEPT !.out = Append(@, item),
                               !.stack = Append(@, [id |-> item, i |-> 1])]
     ELSE walk' = [walk EXCEPT !.pc = "overflow"]
  /\ UNCHANGED traversal

\* the loop of this call is over: back to the caller's loop
PrintReturn ==
  /\ status = "returned"
  /\ walk.pc = "walking"
  /\ WalkTop.i > Len(ChildItems(hierarchy, WalkTop.id))
  /\ IF Len(walk.stack) = 1
     THEN walk' = [walk EXCEPT !.pc = "done", !.stack = <<>>]
     ELSE walk' = [walk EXCEPT !.stack =
                     [SubSeq(@, 1, Len(@) - 1)
                        EXCEPT ![Len(@) - 1] = [@ EXCEPT !.i = @ + 1]]]
  /\ UNCHANGED traversal

Next ==
  \/ \E r \in Keys : Invoke(r)
  \/ JiraSkipVisited
  \/ JiraFetchAbsent
  \/ JiraKeyError
  \/ JiraProcess
  \/ JiraRecurse
  \/ JiraReturn
  \/ AzureSkipVisited
  \/ AzureMark
  \/ AzureProjectAbsent
  \/ AzureDecodeError
  \/ AzureProcess
  \/ AzureRecurse
  \/ AzureNextProject
  \/ AzureReturn
  \/ PrintStart
  \/ PrintItem
  \/ PrintReturn

Spec == Init /\ [][Next]_vars

\* the same program with further invocations of the traversal
NextRerun ==
  \/ Next
  \/ \E r \in Keys : InvokeAgain(r)

SpecRerun == Init /\ [][NextRerun]_vars

\* the interpreter runs the single-threaded script on while a step is left
FairSpec == Spec /\ WF_vars(Next)

TypeOK ==
  /\ variant \in {"jira", "azure"}
  /\ status \in {"idle", "running", "returned", "fault", "overflow"}
  /\ visited \subseteq Keys
  /\ nrel \in 0..MaxRelations
  /\ named \in 0..NKeys
  /\ runs \in 0..MaxRuns


\* ---------------------------------------------------- what the claims use
Returned == status = "returned"

\* keys that have a TicketDescription in the traversal's result
Described ==
  IF variant = "jira" THEN Range(ticket_details) ELSE Range(work_item_map)

\* the fetch of k gave the expected record
FetchedOk(k) == k \in DOMAIN cache /\ cache[k].body = "record"

\* k was reached from another ticket's relations and its fetch gave no record
FailedChild(k) == k \in visited /\ found_from[k] \in Keys /\ ~FetchedOk(k)

\* the places (parent key, position) where k stands in the hierarchy
Occurrences(k) ==
  UNION {{<<p, j>> : j \in {i \in DOMAIN hierarchy[p] : hierarchy[p][i] = k}} :
         p \in DOMAIN hierarchy}

\* ids of the relations a traversal follows: Jira inward/outward issue
\* links, Azure Hierarchy-Forward links
Followed(rels) ==
  LET Keep(r) == r.rel \in {"inwardIssue", "outwardIssue", "Hierarchy-Forward"}
  IN Ids(SelectSeq(rels, Keep))

FollowedFrom(k) == IF FetchedOk(k) THEN Followed(cache[k].relations) ELSE <<>>

Follow(k) == Range(FollowedFrom(k))

RECURSIVE ReachFrom(_, _)
ReachFrom(S, n) ==
  IF n = 0 THEN S ELSE ReachFrom(S \cup UNION {Follow(k) : k \in S}, n - 1)

\* keys reachable from the root through followed relations of fetched tickets
Reachable == ReachFrom({root}, NKeys)

RECURSIVE Dedup(_)
Dedup(q) ==
  IF q = <<>> THEN <<>>
  ELSE LET d == Dedup(SubSeq(q, 1, Len(q) - 1))
       IN IF q[Len(q)] \in Range(d) THEN d ELSE Append(d, q[Len(q)])

NoDuplicates(q) == \A i, j \in 1..Len(q) : q[i] = q[j] => i = j

\* the fetched tickets the traversal reached from p's relations, in the order
\* p's relations list them; under None the fetched root
ReachedFrom(p) ==
  IF p = None THEN (IF FetchedOk(root) THEN <<root>> ELSE <<>>)
  ELSE LET Mine(k) == FetchedOk(k) /\ found_from[k] = p
       IN SelectSeq(Dedup(FollowedFrom(p)), Mine)

\* ------------------------------------------------------------------ claims
\* C1: after a traversal every ticket key stands in the child list of at most
\* one parent key of the hierarchy, and at most once in that list.
C1_OneParentOnce ==
  Returned => \A k \in Keys : Cardinality(Occurrences(k)) <= 1

\* C2: within one traversal run at most one network request is issued per
\* ticket key, whatever the number of referrers and of projects.
C2_OneRequestPerKey == \A k \in Keys : requests[k] <= 1

\* C3: when the fetch of a child key fails, the run still completes without an
\* unhandled fault, the parent is described, and the child is neither
\* described nor anywhere in the hierarchy (as key or as list element).
C3_FailedChildPruned ==
  status \in {"returned", "fault"} =>
    \A k \in Keys :
      FailedChild(k) =>
        /\ status = "returned"
        /\ found_from[k] \in Described
        /\ k \notin Described
        /\ k \notin DOMAIN hierarchy
        /\ \A p \in DOMAIN hierarchy : k \notin Range(hierarchy[p])

\* C4: a non-success or unparsable response is returned as absent and leaves
\* the cache unchanged, the node is pruned without an unhandled fault, and
\* only a successful response is ever cached and normalised.
C4_FailuresDegrade ==
  /\ status # "fault"
  /\ \A k \in DOMAIN cache : cache[k].code = 200 /\ cache[k].body = "record"
  /\ \A k \in Keys : writes[k] > 0 => FetchedOk(k)

\* C5: for any finite ticket graph, cycles included, the traversal started at
\* any root terminates (it returns or stops with a fault; it never recurses on).
C5_Terminates == <>(status \in {"returned", "fault"})

\* a traversal returned from a graph in which a ticket links back to its
\* grandparent, the root
C5_CycleTraversed ==
  /\ Returned
  /\ \E a, b \in Keys :
       /\ Cardinality({root, a, b}) = 3
       /\ a \in Follow(root)
       /\ b \in Follow(a)
       /\ root \in Follow(b)

\* C6: a key is fetched, normalised and recorded once per run: its description
\* is written once and the description collection holds it once.
C6_DescribedOnce ==
  /\ \A k \in Keys : writes[k] <= 1
  /\ NoDuplicates(ticket_details)
  /\ NoDuplicates(work_item_map)

\* C7: a successfully fetched root without children ends with the hierarchy
\* {None: [root]} and nothing else.
C7_LeafRoot ==
  (Returned /\ FetchedOk(root) /\ FollowedFrom(root) = <<>>) =>
    /\ DOMAIN hierarchy = {None}
    /\ hierarchy[None] = <<root>>

\* C8: every fetched ticket is filed under the ticket from whose relations the
\* traversal reached it, in the order of that ticket's relations, and the
\* root under None.
C8_FiledUnderDiscoverer ==
  Returned =>
    \A p \in Keys \cup {None} : Get(hierarchy, p, <<>>) = ReachedFrom(p)

\* C9: nothing persists across invocations: the same root gives the same
\* descriptions and hierarchy again, and a result holds nothing but what its
\* own run visited.
C9_RunsIndependent ==
  (Returned /\ Len(history) >= 2) =>
    /\ \A i, j \in 1..Len(history) :
         history[i].root = history[j].root =>
           /\ history[i].details = history[j].details
           /\ history[i].hierarchy = history[j].hierarchy
    /\ \A k \in Described : requests[k] > 0
    /\ \A p \in DOMAIN hierarchy :
         \/ p \in Keys /\ requests[p] > 0
         \/ \A k \in Range(hierarchy[p]) : requests[k] > 0

\* C10: when the traversal has returned, every key reachable from the root
\* through followed relations of fetched tickets is in the visited set, and
\* is described if its own fetch succeeded.
C10_ReachableVisited ==
  Returned =>
    \A k \in Reachable : k \in visited /\ (FetchedOk(k) => k \in Described)

\* a returned traversal root -> a -> b in which a also links back to the root
C10_FiltersExercised ==
  /\ Returned
  /\ \E a, b \in Keys :
       /\ Cardinality({root, a, b}) = 3
       /\ a \in Follow(root)
       /\ root \in Follow(a)
       /\ b \in Follow(a)
       /\ {root, a, b} \subseteq Described

\* the number of times print_hierarchy printed work item k
TimesPrinted(k) == Cardinality({j \in 1..Len(walk.out) : walk.out[j] = k})

\* C11: (Azure) the pre-order walk of the finished hierarchy from None
\* terminates and prints every work item that has a description exactly once.
C11_WalkPrintsAll ==
  /\ walk.pc # "overflow"
  /\ walk.pc = "done" => \A k \in Range(work_item_map) : TimesPrinted(k) = 1

=============================================================================
